---- MODULE Spec2Model ----
(***************************************************************************)
(* A model of the Rust runtime adapter, pkg/runtime/rust/rust.go:          *)
(*   Runtime  - Build / Run / ShouldRebuild over the directories map,      *)
(*              guarded (in Build only) by the mutex mut;                  *)
(*   Worker   - Stop / Logs over a child process and its two pipes.        *)
(* Strings are sequences of one-character strings, so that the string      *)
(* tests of the code (HasSuffix, HasPrefix, TrimSuffix, Ext) are computed  *)
(* and not assumed.  A path is a record [abs, segs]: whether it is rooted, *)
(* and its elements.                                                       *)
(***************************************************************************)
EXTENDS Integers, Sequences, FiniteSets, TLC

\* ------------------------------------------------------------------------
\* Strings
\* ------------------------------------------------------------------------

\* strings.HasPrefix
HasPrefix(s, prefix) ==
    /\ Len(s) >= Len(prefix)
    /\ SubSeq(s, 1, Len(prefix)) = prefix

\* strings.HasSuffix
HasSuffix(s, suffix) ==
    /\ Len(s) >= Len(suffix)
    /\ SubSeq(s, Len(s) - Len(suffix) + 1, Len(s)) = suffix

\* strings.TrimSuffix
TrimSuffix(s, suffix) ==
    IF HasSuffix(s, suffix) THEN SubSeq(s, 1, Len(s) - Len(suffix)) ELSE s

\* The positions of the dots of a path element.
DotPositions(elem) == {i \in 1..Len(elem) : elem[i] = "."}

\* strings.Join(elems, ",")
RECURSIVE JoinWith(_, _)
JoinWith(elems, sep) ==
    IF elems = <<>> THEN <<>>
    ELSE IF Len(elems) = 1 THEN elems[1]
    ELSE elems[1] \o sep \o JoinWith(Tail(elems), sep)

\* ------------------------------------------------------------------------
\* Paths (path/filepath on a slash-separated file system)
\* ------------------------------------------------------------------------

Path(abs, segs) == [abs |-> abs, segs |-> segs]

\* The string of a clean path: "/" and "." for the two empty paths.
PathString(p) ==
    IF p.segs = <<>> THEN (IF p.abs THEN <<"/">> ELSE <<".">>)
    ELSE (IF p.abs THEN <<"/">> ELSE <<>>) \o JoinWith(p.segs, <<"/">>)

\* filepath.Dir: the path without its last element; "/" and "." are their own
\* parents.
Dir(p) ==
    IF p.segs = <<>> THEN p
    ELSE Path(p.abs, SubSeq(p.segs, 1, Len(p.segs) - 1))

\* filepath.Base: the last element ("/" or "." for the empty paths).
Base(p) ==
    IF p.segs = <<>> THEN PathString(p) ELSE p.segs[Len(p.segs)]

\* filepath.Ext: the suffix of the last element from its final dot on, empty
\* when the element has no dot.
Ext(p) ==
    LET b == IF p.segs = <<>> THEN <<>> ELSE p.segs[Len(p.segs)]
        dots == DotPositions(b)
    IN IF dots = {} THEN <<>>
       ELSE LET last == CHOOSE i \in dots : \A j \in dots : j <= i
            IN SubSeq(b, last, Len(b))

\* The empty path: the zero value of a path held as a Go string.
NoRoot == Path(FALSE, <<>>)

\* filepath.Join(dir, elem...)
Join(p, elems) == Path(p.abs, p.segs \o elems)

\* The working directory of the process (os.Getwd).
Cwd == Path(TRUE, << <<"w">> >>)

\* filepath.Abs: a rooted path is returned cleaned, any other is joined to the
\* working directory.
Abs(p) == IF p.abs THEN p ELSE Path(TRUE, Cwd.segs \o p.segs)

\* The length of the longest common prefix of two element lists.
RECURSIVE CommonPrefixLen(_, _)
CommonPrefixLen(a, b) ==
    IF a = <<>> \/ b = <<>> \/ a[1] # b[1] THEN 0
    ELSE 1 + CommonPrefixLen(Tail(a), Tail(b))

\* filepath.Rel(basepath, targpath): an error when only one of the two is
\* rooted; "." when they are equal; otherwise one ".." for each element of the
\* base past the common prefix, then the rest of the target.
Rel(base, targ) ==
    IF base.abs # targ.abs THEN [err |-> TRUE, rel |-> <<>>]
    ELSE IF base.segs = targ.segs THEN [err |-> FALSE, rel |-> <<".">>]
    ELSE LET k == CommonPrefixLen(base.segs, targ.segs)
             ups == [i \in 1..(Len(base.segs) - k) |-> <<".", ".">>]
             rest == SubSeq(targ.segs, k + 1, Len(targ.segs))
         IN [err |-> FALSE, rel |-> JoinWith(ups \o rest, <<"/">>)]

\* ------------------------------------------------------------------------
\* The files the toolchain reads
\* ------------------------------------------------------------------------

\* Path elements and names, as strings of characters.
RsExt == <<".", "r", "s">>
DotDot == <<".", ".">>
MainRs == <<"m", ".", "r", "s">>
SrcDir == <<"s", "r", "c">>
CargoTomlName == <<"C", "a", "r", "g", "o", ".", "t", "o", "m", "l">>

AppDir == Path(TRUE, << <<"w">>, <<"a", "p", "p">> >>)
SubDir == Path(TRUE, << <<"w">>, <<"a", "p", "p">>, <<"s", "u", "b">> >>)
LooseDir == Path(TRUE, << <<"x">> >>)

\* The directories holding a Cargo.toml: a project and a project nested in it.
CargoTomlDirs == {AppDir, SubDir}

\* A decoded Cargo.toml (CargoToml, CargoTomlBin): its [[bin]] entries in file
\* order.
Bin(name, requiredFeatures) ==
    [Name |-> name, RequiredFeatures |-> requiredFeatures]

\* The project's manifest declares four binaries, one name twice; the nested
\* project's declares none.
CargoTomlAt(dir) ==
    IF dir = AppDir
    THEN [Bin |-> << Bin(<<"m">>, << <<"a">>, <<"b">> >>),
                     Bin(<<"n">>, <<>>),
                     Bin(<<"k">>, << <<"c">> >>),
                     Bin(<<"k">>, <<>>),
                     Bin(<<"m", ".", "x">>, << <<"b">>, <<"a">>, <<"c">> >>) >>]
    ELSE [Bin |-> <<>>]

\* fs.FindUp(initialPath, fileName): walks upward from the handler's directory
\* until a directory holding the file is found; an error when none is, up to
\* the root of the file system.
RECURSIVE FindUpFrom(_, _, _)
FindUpFrom(dir, fileName, holders) ==
    IF dir \in holders THEN [err |-> FALSE, path |-> Join(dir, <<fileName>>)]
    ELSE IF Dir(dir) = dir THEN [err |-> TRUE, path |-> dir]
    ELSE FindUpFrom(Dir(dir), fileName, holders)

FindUp(initialPath, fileName, holders) ==
    FindUpFrom(Dir(initialPath), fileName, holders)

DotCargo == <<".", "c", "a", "r", "g", "o">>
ConfigTomlName == <<"c", "o", "n", "f", "i", "g", ".", "t", "o", "m", "l">>
ConfigName == <<"c", "o", "n", "f", "i", "g">>
TargetName == <<"t", "a", "r", "g", "e", "t">>
LambdaName == <<"l", "a", "m", "b", "d", "a">>
BootstrapName == <<"b", "o", "o", "t", "s", "t", "r", "a", "p">>

WDir == Path(TRUE, << <<"w">> >>)

\* The directories that may hold a .cargo directory: the project's and its
\* parent.
ConfigDirs == {AppDir, WDir}

\* A config file of cargo as it is on disk: there or not, TOML or not, with
\* [build] target-dir or without (CargoConfig, CargoConfigBuild).
NoFile ==
    [exists |-> FALSE, wellFormed |-> FALSE, hasTargetDir |-> FALSE,
     targetDir |-> NoRoot]
ConfigFile(wellFormed, hasTargetDir, targetDir) ==
    [exists |-> TRUE, wellFormed |-> wellFormed,
     hasTargetDir |-> wellFormed /\ hasTargetDir,
     targetDir |-> IF wellFormed /\ hasTargetDir THEN targetDir ELSE NoRoot]

\* A .cargo directory: there or not, and its two config files.
NoCargoDir == [exists |-> FALSE, configToml |-> NoFile, config |-> NoFile]
CargoDir(configToml, config) ==
    [exists |-> TRUE, configToml |-> configToml, config |-> config]

\* os.Stat of dir/.cargo and of the two files in it.
CargoDirAt(cargo, dir) ==
    IF dir \in DOMAIN cargo THEN cargo[dir] ELSE NoCargoDir

\* A *string: nil, or the string.
NilString == [nil |-> TRUE, value |-> NoRoot]
StringPtr(value) == [nil |-> FALSE, value |-> value]

\* FindClosestCargoConfigStoppingAtDir: the walk ends at the first directory
\* that has a .cargo directory, with nil when neither file is in it.
RECURSIVE FindClosestCargoConfigStoppingAtDir(_, _)
FindClosestCargoConfigStoppingAtDir(dir, cargo) ==
    LET cargoDir == Join(dir, <<DotCargo>>)
        here == CargoDirAt(cargo, dir)
    IN IF here.exists /\ here.configToml.exists
       THEN StringPtr(Join(cargoDir, <<ConfigTomlName>>))
       ELSE IF here.exists /\ here.config.exists
       THEN StringPtr(Join(cargoDir, <<ConfigName>>))
       ELSE IF here.exists THEN NilString
       ELSE IF Dir(dir) = dir THEN NilString
       ELSE FindClosestCargoConfigStoppingAtDir(Dir(dir), cargo)

\* FindClosestCargoConfig(startingPath): from the starting directory upward,
\* the first .cargo/config.toml or, failing that, .cargo/config of a directory
\* that has a .cargo directory; nil at the root of the file system.
RECURSIVE FindClosestCargoConfig(_, _)
FindClosestCargoConfig(dir, cargo) ==
    LET cargoDir == Join(dir, <<DotCargo>>)
        here == CargoDirAt(cargo, dir)
    IN IF here.exists /\ here.configToml.exists
       THEN StringPtr(Join(cargoDir, <<ConfigTomlName>>))
       ELSE IF here.exists /\ here.config.exists
       THEN StringPtr(Join(cargoDir, <<ConfigName>>))
       ELSE IF Dir(dir) = dir THEN NilString
       ELSE FindClosestCargoConfig(Dir(dir), cargo)

\* toml.DecodeFile(*cargoConfigFile, &cargoConfig): Build.TargetDir of the
\* file; nil when the file is not TOML (the error is logged) or has no
\* target-dir. No file, no decoding: nil.
DecodeCargoConfig(cargoConfigFile, cargo) ==
    IF cargoConfigFile.nil THEN NilString
    ELSE LET here == CargoDirAt(cargo, Dir(Dir(cargoConfigFile.value)))
             file == IF Base(cargoConfigFile.value) = ConfigTomlName
                     THEN here.configToml ELSE here.config
         IN IF file.wellFormed /\ file.hasTargetDir
            THEN StringPtr(file.targetDir) ELSE NilString

\* toml.DecodeFile(cargoTomlFile, &cargoToml): the manifest; with no entry
\* when the file is not TOML (the error is logged).
DecodeCargoToml(root, manifestOk) ==
    IF manifestOk THEN CargoTomlAt(root) ELSE [Bin |-> <<>>]

\* targetPath, and src: the binary cargo lambda is taken to have built.
TargetPath(root, targetDir) ==
    IF ~targetDir.nil THEN Join(root, targetDir.value.segs)
    ELSE Join(root, <<TargetName>>)
BootstrapSource(root, targetDir, handlerName) ==
    Join(TargetPath(root, targetDir), <<LambdaName, handlerName, BootstrapName>>)

\* The directories os.MkdirAll(dir) makes sure of: dir and those above it.
Upward(dir) ==
    {Path(dir.abs, SubSeq(dir.segs, 1, k)) : k \in 0..Len(dir.segs)}

\* copyFile(src, dst) on a disk: its error and the disk it leaves. os.Open of
\* a source that is not there fails; os.MkdirAll and os.Create fail where the
\* destination cannot be written; io.Copy failing leaves the destination
\* created and incomplete.
copyFile(src, dst, d) ==
    IF src \notin DOMAIN d.files THEN [err |-> "open", disk |-> d]
    ELSE IF ~d.outWritable THEN [err |-> "mkdir", disk |-> d]
    ELSE IF ~d.ioOk
    THEN [err |-> "copy",
          disk |-> [d EXCEPT !.dirs = @ \cup Upward(Dir(dst)),
                             !.files = (dst :> [d.files[src] EXCEPT !.whole = FALSE])
                                       @@ @]]
    ELSE [err |-> "nil",
          disk |-> [d EXCEPT !.dirs = @ \cup Upward(Dir(dst)),
                             !.files = (dst :> d.files[src]) @@ @]]

\* ------------------------------------------------------------------------
\* Build: the pure steps
\* ------------------------------------------------------------------------

\* Unmarshal that keeps the fields decoded before the syntax error.
UnmarshalAsFarAsRead(blob) ==
    IF blob.hasArchitecture
    THEN [Architecture |-> blob.architecture]
    ELSE [Architecture |-> ""]

\* json.Unmarshal(input.Properties, &properties): a malformed blob, or one
\* without the field, leaves Architecture at its zero value.
Unmarshal(blob) ==
    IF blob.wellFormed /\ blob.hasArchitecture
    THEN [Architecture |-> blob.architecture]
    ELSE [Architecture |-> ""]

\* strings.TrimSuffix(filepath.Base(input.Handler), filepath.Ext(input.Handler))
HandlerName(handler) == TrimSuffix(Base(handler), Ext(handler))

\* The loop over cargoToml.Bin: the features of the first entry named as the
\* handler, nil (the empty list) when there is none.
RECURSIVE RequiredFeaturesOf(_, _)
RequiredFeaturesOf(bins, handlerName) ==
    IF bins = <<>> THEN <<>>
    ELSE IF bins[1].Name = handlerName THEN bins[1].RequiredFeatures
    ELSE RequiredFeaturesOf(Tail(bins), handlerName)

ArgLambda == <<"l", "a", "m", "b", "d", "a">>
ArgBuild == <<"b", "u", "i", "l", "d">>
ArgBin == <<"-", "-", "b", "i", "n">>
ArgRelease == <<"-", "-", "r", "e", "l", "e", "a", "s", "e">>
ArgArm64 == <<"-", "-", "a", "r", "m", "6", "4">>
ArgNoDefaultFeatures ==
    <<"-", "-", "n", "o", "-", "d", "e", "f", "a", "u", "l", "t", "-",
      "f", "e", "a", "t", "u", "r", "e", "s">>
ArgFeatures == <<"-", "-", "f", "e", "a", "t", "u", "r", "e", "s">>

\* BuildArgs with "--arm64" appended after "--no-default-features".
BuildArgsArm64Late(handlerName, dev, properties, requiredFeatures) ==
    <<ArgLambda, ArgBuild, ArgBin, handlerName>>
    \o (IF ~dev THEN <<ArgRelease>> ELSE <<>>)
    \o <<ArgNoDefaultFeatures>>
    \o (IF properties.Architecture = "arm_64" THEN <<ArgArm64>> ELSE <<>>)
    \o (IF Len(requiredFeatures) > 0
        THEN <<ArgFeatures, JoinWith(requiredFeatures, <<",">>)>>
        ELSE <<>>)

\* The arguments of the cargo command, as Build appends them.
BuildArgs(handlerName, dev, properties, requiredFeatures) ==
    <<ArgLambda, ArgBuild, ArgBin, handlerName>>
    \o (IF ~dev THEN <<ArgRelease>> ELSE <<>>)
    \o (IF properties.Architecture = "arm_64" THEN <<ArgArm64>> ELSE <<>>)
    \o <<ArgNoDefaultFeatures>>
    \o (IF Len(requiredFeatures) > 0
        THEN <<ArgFeatures, JoinWith(requiredFeatures, <<",">>)>>
        ELSE <<>>)

\* ------------------------------------------------------------------------
\* ShouldRebuild: the pure steps
\* ------------------------------------------------------------------------

\* strings.HasSuffix(file, ".rs")
IsRustFile(file) == HasSuffix(PathString(file), RsExt)

\* ShouldRebuild past the suffix test, on the map as read.
RebuildDecision(dirs, functionID, file) ==
    IF functionID \notin DOMAIN dirs THEN FALSE
    ELSE LET r == Rel(dirs[functionID], file)
         IN IF r.err THEN FALSE ELSE ~HasPrefix(r.rel, DotDot)

\* ShouldRebuild(functionID, file)
ShouldRebuild(dirs, functionID, file) ==
    IF ~IsRustFile(file) THEN FALSE ELSE RebuildDecision(dirs, functionID, file)

\* ------------------------------------------------------------------------
\* State
\* ------------------------------------------------------------------------

VARIABLES
    directories,  \* Runtime.directories: function id -> absolute project root
    mut,          \* Runtime.mut: the Build call holding it, or Unlocked
    build,        \* each Build call: its position, input, locals and result
    rebuild,      \* each ShouldRebuild call: its position, input and result
    fatal,        \* the Go runtime has aborted the program
    disk,         \* the file system: manifest, .cargo directories, files
    lastBuilt     \* history: the root of each id's last Build that succeeded

VARIABLES
    worker,       \* the call of Run: its command and what it returned
    proc,         \* the child process of the Worker (cmd.Process)
    pipes,        \* the child's stdout and stderr pipes (Worker.stdout, stderr)
    emitted,      \* history: the bytes the child wrote to each stream
    logs,         \* each call of Logs: its copy loops, its pipe, its reader
    stops         \* the calls of Stop made, and whether one failed

runtimeVars == <<directories, mut, build, rebuild, fatal, disk, lastBuilt>>

workerVars == <<worker, proc, pipes, emitted, logs, stops>>

vars == <<runtimeVars, workerVars>>

\* ------------------------------------------------------------------------
\* Runtime: Build and ShouldRebuild, as concurrent calls on one instance
\* ------------------------------------------------------------------------

\* The units of work of one run of the cargo command.
CmdWork == 2

Builders == {"b1", "b2"}
Rebuilders == {"s1"}
FunctionIDs == {"f1", "f2"}
Unlocked == "unlocked"

\* The handlers built: two in the project (one under the nested manifest) and
\* one with no manifest above it.
Handlers ==
    { Join(AppDir, << SrcDir, MainRs >>),
      Join(SubDir, << SrcDir, MainRs >>),
      Join(LooseDir, << MainRs >>) }

\* The changed files ShouldRebuild is asked about.
ChangedFiles ==
    { Join(SubDir, << SrcDir, MainRs >>),
      Join(AppDir, << CargoTomlName >>) }

PropertiesBlobs ==
    { [wellFormed |-> TRUE, hasArchitecture |-> TRUE, architecture |-> "arm_64"] }

\* The builds of this model are release builds; BuildArgs is applied to both
\* modes and to every properties blob under SpecArgs.
DevModes == {FALSE}

\* What cargo prints (stdout and stderr combined).
CargoOutputs == {"error: could not compile", ""}

\* runtime.BuildInput
BuildInputs ==
    [FunctionID : FunctionIDs, Handler : Handlers, Dev : DevModes,
     Properties : PropertiesBlobs]

\* input.Out(): the artifact directory the orchestrator designates.
Out(input) ==
    Path(FALSE, << <<"o", "u", "t">>,
                   IF input.FunctionID = "f1" THEN <<"f", "1">> ELSE <<"f", "2">> >>)

\* A Go slice: nil, or a list of elements.
NilSlice == [nil |-> TRUE, elems |-> <<>>]
Slice(elems) == [nil |-> FALSE, elems |-> elems]

\* runtime.BuildOutput, and the nil *BuildOutput.
BuildOutput(handler, sourcemaps, errors, out) ==
    [nil |-> FALSE, Handler |-> handler, Sourcemaps |-> sourcemaps,
     Errors |-> errors, Out |-> out]
NilBuildOutput ==
    [nil |-> TRUE, Handler |-> "", Sourcemaps |-> NilSlice,
     Errors |-> NilSlice, Out |-> NoRoot]

NoInput ==
    [FunctionID |-> "", Handler |-> NoRoot, Dev |-> FALSE,
     Properties |-> [wellFormed |-> FALSE, hasArchitecture |-> FALSE,
                     architecture |-> ""]]

\* A Build call that is not running.
IdleBuild ==
    [pc |-> "idle", input |-> NoInput, root |-> NoRoot, args |-> <<>>,
     work |-> 0, cancelled |-> FALSE, workAtCancel |-> 0,
     cargoConfigFile |-> NilString, targetDir |-> NilString,
     exit |-> "none", output |-> "",
     src |-> NoRoot, dst |-> NoRoot, copyErr |-> "none",
     out |-> NilBuildOutput, err |-> "nil"]

IdleRebuild ==
    [pc |-> "idle", functionID |-> "", file |-> NoRoot, raced |-> FALSE,
     ret |-> FALSE]

\* A disk with a well-formed manifest, no .cargo directory and no binary
\* built yet, on which the artifact directories can be made and written.
SoundDisk ==
    [manifestOk |-> TRUE, cargo |-> [d \in ConfigDirs |-> NoCargoDir],
     files |-> <<>>, dirs |-> {}, outWritable |-> TRUE, ioOk |-> TRUE]

\* The directories cargo may build into: target under the project root, or
\* the target-dir of a config file above the project, which cargo takes from
\* the directory holding .cargo when it is not rooted.
CargoTargetDirs(root, cargo) ==
    {Join(root, <<TargetName>>)}
    \cup {LET f == cargo[df[1]][df[2]]
          IN IF f.targetDir.abs THEN f.targetDir
             ELSE Join(df[1], f.targetDir.segs) :
          df \in {df \in (Upward(root) \cap DOMAIN cargo)
                            \X {"configToml", "config"} :
                     cargo[df[1]][df[2]].hasTargetDir}}

\* The binary cargo lambda builds for a handler of a project.
Binary(handlerName, root) ==
    [bin |-> handlerName, root |-> root, whole |-> TRUE]

RuntimeInit ==
    /\ disk = SoundDisk
    /\ directories = <<>>
    /\ mut = Unlocked
    /\ build = [b \in Builders |-> IdleBuild]
    /\ rebuild = [s \in Rebuilders |-> IdleRebuild]
    /\ fatal = FALSE
    /\ lastBuilt = <<>>

\* The orchestrator calls Build with one of the inputs.
BuildCallWith(b, inputs) ==
    /\ ~fatal
    /\ build[b].pc = "idle"
    /\ \E input \in inputs :
        build' = [build EXCEPT ![b] = [IdleBuild EXCEPT !.pc = "lock",
                                                        !.input = input]]
    /\ UNCHANGED <<directories, mut, rebuild, fatal, lastBuilt, disk, workerVars>>

BuildCall(b) == BuildCallWith(b, BuildInputs)

\* BuildLock that does not wait for the mutex to be free.
BuildLockWithoutWaiting(b) ==
    /\ ~fatal
    /\ build[b].pc = "lock"
    /\ mut' = b
    /\ build' = [build EXCEPT ![b].pc = "locked"]
    /\ UNCHANGED <<directories, rebuild, fatal, lastBuilt, disk, workerVars>>

\* r.mut.Lock()
BuildLock(b) ==
    /\ ~fatal
    /\ build[b].pc = "lock"
    /\ mut = Unlocked
    /\ mut' = b
    /\ build' = [build EXCEPT ![b].pc = "locked"]
    /\ UNCHANGED <<directories, rebuild, fatal, lastBuilt, disk, workerVars>>

\* BuildPrepare with the error of fs.FindUp reported as a build error, in the
\* Errors of a BuildOutput, with a nil error.
BuildPrepareReportingNotFound(b) ==
    /\ ~fatal
    /\ build[b].pc = "locked"
    /\ LET input == build[b].input
           properties == Unmarshal(input.Properties)
           handlerName == HandlerName(input.Handler)
           cargoTomlFile == FindUp(input.Handler, CargoTomlName, CargoTomlDirs)
       IN IF cargoTomlFile.err
          THEN build' = [build EXCEPT
                   ![b].pc = "ret",
                   ![b].out = BuildOutput("", NilSlice,
                                          Slice(<<"ErrNotFound">>), NoRoot),
                   ![b].err = "nil"]
          ELSE \E root \in {Dir(cargoTomlFile.path)} :
               \E cargoConfigFile \in {FindClosestCargoConfig(root, disk.cargo)} :
                 LET cargoToml == DecodeCargoToml(root, disk.manifestOk)
                     requiredFeatures ==
                         RequiredFeaturesOf(cargoToml.Bin, handlerName)
                 IN build' = [build EXCEPT
                        ![b].pc = "cmd",
                        ![b].root = root,
                        ![b].cargoConfigFile = cargoConfigFile,
                        ![b].targetDir =
                            DecodeCargoConfig(cargoConfigFile, disk.cargo),
                        ![b].args = BuildArgs(handlerName, input.Dev, properties,
                                              requiredFeatures)]
    /\ UNCHANGED <<directories, mut, rebuild, fatal, lastBuilt, disk, workerVars>>

\* From the lock to the start of the cargo command: the properties, the
\* handler name, fs.FindUp (its error returned at once), the manifest, the
\* config file of cargo, the arguments.
BuildPrepare(b) ==
    /\ ~fatal
    /\ build[b].pc = "locked"
    /\ LET input == build[b].input
           properties == Unmarshal(input.Properties)
           handlerName == HandlerName(input.Handler)
           cargoTomlFile == FindUp(input.Handler, CargoTomlName, CargoTomlDirs)
       IN IF cargoTomlFile.err
          THEN build' = [build EXCEPT ![b].pc = "ret",
                                      ![b].out = NilBuildOutput,
                                      ![b].err = "ErrNotFound"]
          ELSE \E root \in {Dir(cargoTomlFile.path)} :
               \E cargoConfigFile \in {FindClosestCargoConfig(root, disk.cargo)} :
                 LET cargoToml == DecodeCargoToml(root, disk.manifestOk)
                     requiredFeatures ==
                         RequiredFeaturesOf(cargoToml.Bin, handlerName)
                 IN build' = [build EXCEPT
                        ![b].pc = "cmd",
                        ![b].root = root,
                        ![b].cargoConfigFile = cargoConfigFile,
                        ![b].targetDir =
                            DecodeCargoConfig(cargoConfigFile, disk.cargo),
                        ![b].args = BuildArgs(handlerName, input.Dev, properties,
                                              requiredFeatures)]
    /\ UNCHANGED <<directories, mut, rebuild, fatal, lastBuilt, disk, workerVars>>

\* The caller cancels the context of a Build whose command is running. Build
\* never reads ctx: nothing else changes.
CtxCancel(b) ==
    /\ ~fatal
    /\ build[b].pc = "cmd"
    /\ ~build[b].cancelled
    /\ build' = [build EXCEPT ![b].cancelled = TRUE,
                               ![b].workAtCancel = build[b].work]
    /\ UNCHANGED <<directories, mut, rebuild, fatal, lastBuilt, disk, workerVars>>

\* The cargo command, started by cmd.CombinedOutput() with no context, does
\* one more unit of its work.
BuildCommandRun(b) ==
    /\ ~fatal
    /\ build[b].pc = "cmd"
    /\ build[b].work < CmdWork
    /\ build' = [build EXCEPT ![b].work = build[b].work + 1]
    /\ UNCHANGED <<directories, mut, rebuild, fatal, lastBuilt, disk, workerVars>>

\* Lines 156-167 of Build, after a cargo command that succeeded having built
\* into the directory given: the source and the destination of the binary,
\* and copyFile from the one to the other.
BuildCopy(b, built) ==
    LET handlerName == HandlerName(build[b].input.Handler)
        root == build[b].root
        made == [disk EXCEPT !.files =
                    (Join(built, <<LambdaName, handlerName, BootstrapName>>)
                        :> Binary(handlerName, root)) @@ @]
        src == BootstrapSource(root, build[b].targetDir, handlerName)
        dst == Join(Out(build[b].input), <<BootstrapName>>)
        copied == copyFile(src, dst, made)
    IN [src |-> src, dst |-> dst, err |-> copied.err, disk |-> copied.disk]

\* BuildCommandDone with the map written before the command's error is looked
\* at: a failed build records its root too.
BuildCommandDoneRecordingRoot(b) ==
    /\ ~fatal
    /\ build[b].pc = "cmd"
    /\ build[b].work = CmdWork
    /\ \E exit \in {"ok", "nonzero"}, output \in CargoOutputs,
          built \in CargoTargetDirs(build[b].root, disk.cargo) :
        IF exit # "ok"
        THEN /\ build' = [build EXCEPT
                   ![b].pc = "ret", ![b].exit = exit, ![b].output = output,
                   ![b].out = BuildOutput("", NilSlice, Slice(<<output>>), NoRoot),
                   ![b].err = "nil"]
             /\ directories' =
                   (build[b].input.FunctionID :> Abs(build[b].root))
                   @@ directories
             /\ UNCHANGED disk
        ELSE \E copied \in {BuildCopy(b, built)} :
                /\ build' = [build EXCEPT
                       ![b].pc = "write", ![b].exit = exit,
                       ![b].src = copied.src, ![b].dst = copied.dst,
                       ![b].copyErr = copied.err]
                /\ disk' = copied.disk
                /\ UNCHANGED directories
    /\ UNCHANGED <<mut, rebuild, fatal, lastBuilt, workerVars>>

\* BuildCommandDone with the failure reported in the output of a success: the
\* handler and the output directory filled in beside the error.
BuildCommandDoneFilledOutput(b) ==
    /\ ~fatal
    /\ build[b].pc = "cmd"
    /\ build[b].work = CmdWork
    /\ \E exit \in {"ok", "nonzero"}, output \in CargoOutputs,
          built \in CargoTargetDirs(build[b].root, disk.cargo) :
        IF exit # "ok"
        THEN /\ build' = [build EXCEPT
                 ![b].pc = "ret", ![b].exit = exit, ![b].output = output,
                 ![b].out = BuildOutput("bootstrap", Slice(<<>>),
                                        Slice(<<output>>), Out(build[b].input)),
                 ![b].err = "nil"]
             /\ UNCHANGED disk
        ELSE \E copied \in {BuildCopy(b, built)} :
                /\ build' = [build EXCEPT
                       ![b].pc = "write", ![b].exit = exit,
                       ![b].src = copied.src, ![b].dst = copied.dst,
                       ![b].copyErr = copied.err]
                /\ disk' = copied.disk
    /\ UNCHANGED <<directories, mut, rebuild, fatal, lastBuilt, workerVars>>

\* cmd.CombinedOutput() returns: with an error, Build returns the output as
\* the one entry of Errors; without, it drops the output, copies the binary
\* (copyFile, its error dropped) and goes on to the map.
BuildCommandDone(b) ==
    /\ ~fatal
    /\ build[b].pc = "cmd"
    /\ build[b].work = CmdWork
    /\ \E exit \in {"ok", "nonzero"}, output \in CargoOutputs,
          built \in CargoTargetDirs(build[b].root, disk.cargo) :
        IF exit # "ok"
        THEN /\ build' = [build EXCEPT
                 ![b].pc = "ret", ![b].exit = exit, ![b].output = output,
                 ![b].out = BuildOutput("", NilSlice, Slice(<<output>>), NoRoot),
                 ![b].err = "nil"]
             /\ UNCHANGED disk
        ELSE \E copied \in {BuildCopy(b, built)} :
                /\ build' = [build EXCEPT
                       ![b].pc = "write", ![b].exit = exit,
                       ![b].src = copied.src, ![b].dst = copied.dst,
                       ![b].copyErr = copied.err]
                /\ disk' = copied.disk
    /\ UNCHANGED <<directories, mut, rebuild, fatal, lastBuilt, workerVars>>

\* r.directories[input.FunctionID] = ... begins: a map write is not atomic,
\* and a read of the map in progress now overlaps it.
BuildWriteBegin(b) ==
    /\ ~fatal
    /\ build[b].pc = "write"
    /\ build' = [build EXCEPT ![b].pc = "writing"]
    /\ rebuild' = [s \in Rebuilders |->
                     IF rebuild[s].pc = "reading"
                     THEN [rebuild[s] EXCEPT !.raced = TRUE]
                     ELSE rebuild[s]]
    /\ UNCHANGED <<directories, mut, fatal, lastBuilt, disk, workerVars>>

\* BuildWriteEnd with the error of copyFile put in the Errors of the result.
BuildWriteEndReportingCopyError(b) ==
    /\ ~fatal
    /\ build[b].pc = "writing"
    /\ directories' =
           (build[b].input.FunctionID :> Abs(build[b].root)) @@ directories
    /\ build' = [build EXCEPT
           ![b].pc = "ret",
           ![b].out = BuildOutput("bootstrap", Slice(<<>>),
                                  IF build[b].copyErr = "nil" THEN Slice(<<>>)
                                  ELSE Slice(<<build[b].copyErr>>),
                                  Out(build[b].input)),
           ![b].err = "nil"]
    /\ UNCHANGED <<mut, rebuild, fatal, lastBuilt, disk, workerVars>>

\* The map write ends, and Build builds its result.
BuildWriteEnd(b) ==
    /\ ~fatal
    /\ build[b].pc = "writing"
    /\ directories' =
           (build[b].input.FunctionID :> Abs(build[b].root)) @@ directories
    /\ build' = [build EXCEPT
           ![b].pc = "ret",
           ![b].out = BuildOutput("bootstrap", Slice(<<>>), Slice(<<>>),
                                  Out(build[b].input)),
           ![b].err = "nil"]
    /\ UNCHANGED <<mut, rebuild, fatal, lastBuilt, disk, workerVars>>

\* Whether a returned Build succeeded, as its caller sees it.
Succeeded(call) ==
    /\ call.err = "nil"
    /\ ~call.out.nil
    /\ call.out.Errors.elems = <<>>

\* The nearest directory above the handler that holds a Cargo.toml.
ProjectRoot(handler) ==
    CHOOSE d \in CargoTomlDirs :
        /\ Len(d.segs) < Len(handler.segs)
        /\ SubSeq(handler.segs, 1, Len(d.segs)) = d.segs
        /\ \A e \in CargoTomlDirs :
            (/\ Len(e.segs) < Len(handler.segs)
             /\ SubSeq(handler.segs, 1, Len(e.segs)) = e.segs)
            => Len(e.segs) <= Len(d.segs)

\* BuildReturn with the unlock at the end of Build instead of deferred: the
\* early return of fs.FindUp's error leaves the lock held.
BuildReturnHoldingLockOnError(b) ==
    /\ ~fatal
    /\ build[b].pc = "ret"
    /\ mut' = IF build[b].err = "nil" THEN Unlocked ELSE mut
    /\ lastBuilt' =
           IF Succeeded(build[b])
           THEN (build[b].input.FunctionID :> ProjectRoot(build[b].input.Handler))
                @@ lastBuilt
           ELSE lastBuilt
    /\ build' = [build EXCEPT ![b] = IdleBuild]
    /\ UNCHANGED <<directories, rebuild, fatal, disk, workerVars>>

\* Build returns (the deferred r.mut.Unlock() runs) and its caller has the
\* result.
BuildReturn(b) ==
    /\ ~fatal
    /\ build[b].pc = "ret"
    /\ mut' = Unlocked
    /\ lastBuilt' =
           IF Succeeded(build[b])
           THEN (build[b].input.FunctionID :> ProjectRoot(build[b].input.Handler))
                @@ lastBuilt
           ELSE lastBuilt
    /\ build' = [build EXCEPT ![b] = IdleBuild]
    /\ UNCHANGED <<directories, rebuild, fatal, disk, workerVars>>

\* The orchestrator calls ShouldRebuild about one of the files; a file that
\* is not Rust source is answered at once.
RebuildCallWith(s, files) ==
    /\ ~fatal
    /\ rebuild[s].pc = "idle"
    /\ \E functionID \in FunctionIDs, file \in files :
        rebuild' = [rebuild EXCEPT ![s] =
            [IdleRebuild EXCEPT
                !.pc = IF IsRustFile(file) THEN "read" ELSE "ret",
                !.functionID = functionID, !.file = file, !.ret = FALSE]]
    /\ UNCHANGED <<directories, mut, build, fatal, lastBuilt, disk, workerVars>>

RebuildCall(s) == RebuildCallWith(s, ChangedFiles)

\* r.directories[functionID] begins, with no lock taken: it overlaps a map
\* write in progress.
RebuildReadBegin(s) ==
    /\ ~fatal
    /\ rebuild[s].pc = "read"
    /\ rebuild' = [rebuild EXCEPT
           ![s].pc = "reading",
           ![s].raced = \E b \in Builders : build[b].pc = "writing"]
    /\ UNCHANGED <<directories, mut, build, fatal, lastBuilt, disk, workerVars>>

\* The read ends. One that overlapped no write answers from the map; one that
\* did is a data race: the Go runtime aborts the program ("concurrent map read
\* and map write") or the read sees the map without or with the entry written.
RebuildReadEnd(s) ==
    /\ ~fatal
    /\ rebuild[s].pc = "reading"
    /\ \/ /\ ~rebuild[s].raced
          /\ rebuild' = [rebuild EXCEPT
                 ![s].pc = "ret",
                 ![s].ret = RebuildDecision(directories, rebuild[s].functionID,
                                            rebuild[s].file)]
          /\ UNCHANGED fatal
       \/ /\ rebuild[s].raced
          /\ \E ret \in BOOLEAN :
                rebuild' = [rebuild EXCEPT ![s].pc = "ret", ![s].ret = ret]
          /\ UNCHANGED fatal
       \/ /\ rebuild[s].raced
          /\ fatal' = TRUE
          /\ UNCHANGED rebuild
    /\ UNCHANGED <<directories, mut, build, lastBuilt, disk, workerVars>>

\* ShouldRebuild returns.
RebuildReturn(s) ==
    /\ ~fatal
    /\ rebuild[s].pc = "ret"
    /\ rebuild' = [rebuild EXCEPT ![s] = IdleRebuild]
    /\ UNCHANGED <<directories, mut, build, fatal, lastBuilt, disk, workerVars>>

\* ------------------------------------------------------------------------
\* Worker: Run, Stop and Logs over one child process
\* ------------------------------------------------------------------------

\* The bytes the child writes to each of its streams, at most.
MaxBytes == 2

\* The calls of Stop on the worker, at most.
MaxStops == 2

Streams == {"stdout", "stderr"}

\* The calls of Logs on the worker, in the order they are made.
LogsCalls == {1, 2}

\* runtime.RunInput: the built artifact, the caller's environment and the
\* address of the local invocation API.
RunInputs ==
    [Build : {[Out |-> "artifacts/f1", Handler |-> "bootstrap"]},
     Env : {<<"PATH=/bin">>},
     Server : {"localhost:8080/lambda/f1"}]

\* The i-th byte of a stream.
Byte(stream, i) == <<stream, i>>

\* One end-to-end pipe of the operating system: the bytes written and not
\* yet read, whether the child's end is open, whether the worker's is.
OpenPipe == [buf |-> <<>>, writeOpen |-> TRUE, readOpen |-> TRUE]
ClosedPipe == [buf |-> <<>>, writeOpen |-> FALSE, readOpen |-> FALSE]

NoCmd == [Path |-> <<>>, Env |-> <<>>, Dir |-> ""]
NoWorker ==
    [pc |-> "none", cmd |-> NoCmd, spawned |-> FALSE, nil |-> TRUE,
     err |-> "nil"]
NoProcess == [state |-> "none", killed |-> FALSE, reaped |-> FALSE]

\* One io.Copy loop: reading its stream, writing the chunk read, or done.
IdleCopy == [pc |-> "idle", chunk |-> <<>>]

\* A call of Logs not made yet: the io.Pipe, the stream whose copy loop is in
\* writer.Write (or none), the bytes the reader of the merged stream has got.
NoLogs ==
    [called |-> FALSE, copy |-> [x \in Streams |-> IdleCopy],
     writing |-> "none", closed |-> FALSE, received |-> <<>>, eof |-> FALSE]

WorkerInit ==
    /\ worker = NoWorker
    /\ proc = NoProcess
    /\ pipes = [x \in Streams |-> ClosedPipe]
    /\ emitted = [x \in Streams |-> <<>>]
    /\ logs = [l \in LogsCalls |-> NoLogs]
    /\ stops = [made |-> 0, failed |-> FALSE]

\* Run taking the lock of the Runtime, as Build does.
RunUnderBuildLock ==
    /\ worker.pc = "none"
    /\ mut = Unlocked
    /\ \E input \in RunInputs, spawned \in BOOLEAN :
        /\ worker' =
               [pc |-> "returned",
                cmd |-> [Path |-> <<input.Build.Out, input.Build.Handler>>,
                         Env |-> Append(input.Env,
                                        <<"AWS_LAMBDA_RUNTIME_API=", input.Server>>),
                         Dir |-> input.Build.Out],
                spawned |-> spawned,
                nil |-> FALSE,
                err |-> "nil"]
        /\ proc' = IF spawned THEN [NoProcess EXCEPT !.state = "running"]
                   ELSE NoProcess
        /\ pipes' = [x \in Streams |-> IF spawned THEN OpenPipe ELSE ClosedPipe]
    /\ UNCHANGED <<emitted, logs, stops, runtimeVars>>

\* Run: the command is built, its two pipes are made, cmd.Start() is called
\* with its error dropped, and the Worker is returned with a nil error either
\* way. A Start that fails leaves cmd.Process nil and closes the pipes.
Run ==
    /\ worker.pc = "none"
    /\ \E input \in RunInputs, spawned \in BOOLEAN :
        /\ worker' =
               [pc |-> "returned",
                cmd |-> [Path |-> <<input.Build.Out, input.Build.Handler>>,
                         Env |-> Append(input.Env,
                                        <<"AWS_LAMBDA_RUNTIME_API=", input.Server>>),
                         Dir |-> input.Build.Out],
                spawned |-> spawned,
                nil |-> FALSE,
                err |-> "nil"]
        /\ proc' = IF spawned THEN [NoProcess EXCEPT !.state = "running"]
                   ELSE NoProcess
        /\ pipes' = [x \in Streams |-> IF spawned THEN OpenPipe ELSE ClosedPipe]
    /\ UNCHANGED <<emitted, logs, stops, runtimeVars>>

\* The child writes the next byte of one of its streams.
ChildWrite(x) ==
    /\ proc.state = "running"
    /\ pipes[x].writeOpen
    /\ Len(emitted[x]) < MaxBytes
    /\ LET byte == Byte(x, Len(emitted[x]) + 1)
       IN /\ emitted' = [emitted EXCEPT ![x] = Append(@, byte)]
          /\ pipes' = [pipes EXCEPT ![x].buf = Append(@, byte)]
    /\ UNCHANGED <<worker, proc, logs, stops, runtimeVars>>

\* The child closes one of its streams and runs on.
ChildClose(x) ==
    /\ proc.state = "running"
    /\ pipes[x].writeOpen
    /\ pipes' = [pipes EXCEPT ![x].writeOpen = FALSE]
    /\ UNCHANGED <<worker, proc, emitted, logs, stops, runtimeVars>>

\* The pipes once the process is gone: its ends of them are closed.
HungUp(ps) == [x \in Streams |-> [ps[x] EXCEPT !.writeOpen = FALSE]]

\* The child exits on its own. Nothing waits for it: it is not reaped.
ChildExit ==
    /\ proc.state = "running"
    /\ proc' = [proc EXCEPT !.state = "exited"]
    /\ pipes' = HungUp(pipes)
    /\ UNCHANGED <<worker, emitted, logs, stops, runtimeVars>>

\* process.Kill(p): terminates the process; a process that has exited, or
\* none, is left as it is.
Kill(p) ==
    IF p.state = "running"
    THEN [p EXCEPT !.state = "exited", !.killed = TRUE]
    ELSE p

\* Stop with the error of os.Process.Kill on a finished process taken for a
\* failure.
StopFailingWhenFinished ==
    /\ worker.pc = "returned"
    /\ stops.made < MaxStops
    /\ stops' = [made |-> stops.made + 1,
                 failed |-> stops.failed \/ proc.state # "running"]
    /\ proc' = Kill(proc)
    /\ pipes' = IF proc.state = "running" THEN HungUp(pipes) ELSE pipes
    /\ UNCHANGED <<worker, emitted, logs, runtimeVars>>

\* Worker.Stop(): process.Kill(w.cmd.Process).
Stop ==
    /\ worker.pc = "returned"
    /\ stops.made < MaxStops
    /\ stops' = [stops EXCEPT !.made = @ + 1]
    /\ proc' = Kill(proc)
    /\ pipes' = IF proc.state = "running" THEN HungUp(pipes) ELSE pipes
    /\ UNCHANGED <<worker, emitted, logs, runtimeVars>>

\* Logs with the copy loop of stdout alone.
LogsOfStdout(l) ==
    /\ worker.pc = "returned"
    /\ ~logs[l].called
    /\ \A k \in LogsCalls : k < l => logs[k].called
    /\ logs' = [logs EXCEPT
           ![l].called = TRUE,
           ![l].copy = [x \in Streams |->
                           [pc |-> IF x = "stdout" THEN "read" ELSE "done",
                            chunk |-> <<>>]]]
    /\ UNCHANGED <<worker, proc, pipes, emitted, stops, runtimeVars>>

\* Worker.Logs(): an io.Pipe is made, the two copy loops and the goroutine
\* that closes the writer are started, and the reader is returned.
Logs(l) ==
    /\ worker.pc = "returned"
    /\ ~logs[l].called
    /\ \A k \in LogsCalls : k < l => logs[k].called
    /\ logs' = [logs EXCEPT ![l].called = TRUE,
                            ![l].copy = [x \in Streams |->
                                            [pc |-> "read", chunk |-> <<>>]]]
    /\ UNCHANGED <<worker, proc, pipes, emitted, stops, runtimeVars>>

\* io.Copy reads its stream: the bytes in the pipe, all of them; or the end of
\* the stream, when the pipe is empty and the child's end closed (or the
\* worker's end is, after a failed Start), which ends the loop. It waits
\* otherwise.
CopyRead(l, x) ==
    /\ logs[l].copy[x].pc = "read"
    /\ IF pipes[x].readOpen /\ pipes[x].buf # <<>>
       THEN /\ logs' = [logs EXCEPT ![l].copy[x] =
                           [pc |-> "write", chunk |-> pipes[x].buf]]
            /\ pipes' = [pipes EXCEPT ![x].buf = <<>>]
       ELSE /\ ~pipes[x].readOpen \/ ~pipes[x].writeOpen
            /\ logs' = [logs EXCEPT ![l].copy[x].pc = "done"]
            /\ UNCHANGED pipes
    /\ UNCHANGED <<worker, proc, emitted, stops, runtimeVars>>

\* io.Copy writes the chunk: writer.Write takes the pipe's write lock, which
\* one Write holds at a time, and offers the chunk to the reader.
CopyWrite(l, x) ==
    /\ logs[l].copy[x].pc = "write"
    /\ logs[l].writing = "none"
    /\ logs' = [logs EXCEPT ![l].writing = x, ![l].copy[x].pc = "writing"]
    /\ UNCHANGED <<worker, proc, pipes, emitted, stops, runtimeVars>>

\* ReaderRead with the bytes read handed to the reader of every merged
\* stream still open, as if the calls of Logs shared one pipe.
ReaderReadToEveryStream(l) ==
    /\ logs[l].writing # "none"
    /\ LET x == logs[l].writing
           chunk == logs[l].copy[x].chunk
       IN \E n \in 1..Len(chunk) :
            logs' = [k \in LogsCalls |->
                IF k = l
                THEN [logs[l] EXCEPT
                        !.received = @ \o SubSeq(chunk, 1, n),
                        !.copy[x] =
                            IF n = Len(chunk) THEN [pc |-> "read", chunk |-> <<>>]
                            ELSE [pc |-> "writing",
                                  chunk |-> SubSeq(chunk, n + 1, Len(chunk))],
                        !.writing = IF n = Len(chunk) THEN "none" ELSE x]
                ELSE IF logs[k].called /\ ~logs[k].eof
                     THEN [logs[k] EXCEPT !.received = @ \o SubSeq(chunk, 1, n)]
                     ELSE logs[k]]
    /\ UNCHANGED <<worker, proc, pipes, emitted, stops, runtimeVars>>

\* The reader of the merged stream reads: it gets the first bytes of the
\* chunk offered, as many as its buffer takes; the Write returns once the
\* whole chunk is read, and its loop goes back to reading.
ReaderRead(l) ==
    /\ logs[l].writing # "none"
    /\ LET x == logs[l].writing
           chunk == logs[l].copy[x].chunk
       IN \E n \in 1..Len(chunk) :
            logs' = [logs EXCEPT
                ![l].received = @ \o SubSeq(chunk, 1, n),
                ![l].copy[x] =
                    IF n = Len(chunk) THEN [pc |-> "read", chunk |-> <<>>]
                    ELSE [pc |-> "writing",
                          chunk |-> SubSeq(chunk, n + 1, Len(chunk))],
                ![l].writing = IF n = Len(chunk) THEN "none" ELSE x]
    /\ UNCHANGED <<worker, proc, pipes, emitted, stops, runtimeVars>>

\* LogsClose with the writer closed as soon as one copy loop is done.
LogsCloseAfterEither(l) ==
    /\ logs[l].called
    /\ ~logs[l].closed
    /\ \E x \in Streams : logs[l].copy[x].pc = "done"
    /\ logs' = [logs EXCEPT ![l].closed = TRUE]
    /\ UNCHANGED <<worker, proc, pipes, emitted, stops, runtimeVars>>

\* wg.Wait() returns when both copy loops are done, and writer.Close() runs.
LogsClose(l) ==
    /\ logs[l].called
    /\ ~logs[l].closed
    /\ \A x \in Streams : logs[l].copy[x].pc = "done"
    /\ logs' = [logs EXCEPT ![l].closed = TRUE]
    /\ UNCHANGED <<worker, proc, pipes, emitted, stops, runtimeVars>>

\* The reader of the merged stream reads the end of data.
ReaderEOF(l) ==
    /\ logs[l].closed
    /\ ~logs[l].eof
    /\ logs' = [logs EXCEPT ![l].eof = TRUE]
    /\ UNCHANGED <<worker, proc, pipes, emitted, stops, runtimeVars>>

\* ------------------------------------------------------------------------
\* The specifications
\* ------------------------------------------------------------------------

\* Build and ShouldRebuild called concurrently on one Runtime.
Init == RuntimeInit /\ WorkerInit

Next ==
    \/ \E b \in Builders : BuildCall(b)
    \/ \E b \in Builders : BuildLock(b)
    \/ \E b \in Builders : BuildPrepare(b)
    \/ \E b \in Builders : CtxCancel(b)
    \/ \E b \in Builders : BuildCommandRun(b)
    \/ \E b \in Builders : BuildCommandDone(b)
    \/ \E b \in Builders : BuildWriteBegin(b)
    \/ \E b \in Builders : BuildWriteEnd(b)
    \/ \E b \in Builders : BuildReturn(b)
    \/ \E s \in Rebuilders : RebuildCall(s)
    \/ \E s \in Rebuilders : RebuildReadBegin(s)
    \/ \E s \in Rebuilders : RebuildReadEnd(s)
    \/ \E s \in Rebuilders : RebuildReturn(s)

Spec == Init /\ [][Next]_vars

\* One worker: Run, then Stop and Logs in any order, beside the child.
InitWorker == RuntimeInit /\ WorkerInit

NextWorker ==
    \/ Run
    \/ \E x \in Streams : ChildWrite(x)
    \/ \E x \in Streams : ChildClose(x)
    \/ ChildExit
    \/ Stop
    \/ \E l \in LogsCalls : Logs(l)
    \/ \E l \in LogsCalls, x \in Streams : CopyRead(l, x)
    \/ \E l \in LogsCalls, x \in Streams : CopyWrite(l, x)
    \/ \E l \in LogsCalls : ReaderRead(l)
    \/ \E l \in LogsCalls : LogsClose(l)
    \/ \E l \in LogsCalls : ReaderEOF(l)

SpecWorker == InitWorker /\ [][NextWorker]_vars

\* One worker whose Logs is called once, with the goroutines of Logs
\* scheduled and the reader of the merged stream reading on: a step of a copy
\* loop, of the closing goroutine or of the reader that stays possible is
\* taken.
NextLogs ==
    \/ Run
    \/ \E x \in Streams : ChildWrite(x)
    \/ \E x \in Streams : ChildClose(x)
    \/ ChildExit
    \/ Stop
    \/ Logs(1)
    \/ \E x \in Streams : CopyRead(1, x)
    \/ \E x \in Streams : CopyWrite(1, x)
    \/ ReaderRead(1)
    \/ LogsClose(1)
    \/ ReaderEOF(1)

SpecLogs ==
    /\ InitWorker
    /\ [][NextLogs]_vars
    /\ \A x \in Streams : WF_vars(CopyRead(1, x)) /\ WF_vars(CopyWrite(1, x))
    /\ WF_vars(ReaderRead(1))
    /\ WF_vars(LogsClose(1))
    /\ WF_vars(ReaderEOF(1))

\* ------------------------------------------------------------------------
\* ShouldRebuild alone, on every map a run of Builds can leave
\* ------------------------------------------------------------------------

\* The maps Builds of the two projects leave behind.
RecordedMaps ==
    UNION {[ids -> {AppDir, SubDir}] : ids \in SUBSET FunctionIDs}

\* The changed files asked about: Rust sources in the project, in the nested
\* project, in a directory of the project whose name starts with two dots,
\* in a sibling directory and outside; a manifest; a path that is not rooted.
QueryFiles ==
    { Join(AppDir, << SrcDir, MainRs >>),
      Join(SubDir, << SrcDir, MainRs >>),
      Join(AppDir, << <<".", ".", "a">>, MainRs >>),
      Join(Dir(AppDir), << <<"a", "p", "p", "2">>, MainRs >>),
      Join(LooseDir, << MainRs >>),
      Join(AppDir, << CargoTomlName >>),
      Path(FALSE, << SrcDir, MainRs >>) }

RebuildQuery(s) == RebuildCallWith(s, QueryFiles)

InitRebuild ==
    /\ disk = SoundDisk
    /\ directories \in RecordedMaps
    /\ lastBuilt = directories
    /\ mut = Unlocked
    /\ build = [b \in Builders |-> IdleBuild]
    /\ rebuild = [s \in Rebuilders |-> IdleRebuild]
    /\ fatal = FALSE
    /\ WorkerInit

NextRebuild ==
    \/ \E s \in Rebuilders : RebuildQuery(s)
    \/ \E s \in Rebuilders : RebuildReadBegin(s)
    \/ \E s \in Rebuilders : RebuildReadEnd(s)
    \/ \E s \in Rebuilders : RebuildReturn(s)

SpecRebuild == InitRebuild /\ [][NextRebuild]_vars

\* ------------------------------------------------------------------------
\* Build alone, on every handler, mode and properties blob
\* ------------------------------------------------------------------------

\* Handlers in the project: binaries the manifest declares (with features,
\* without, twice), one it does not declare, names with no extension, with
\* two dots and with nothing before the dot; and one in the nested project.
ArgsHandlers ==
    { Join(AppDir, << SrcDir, <<"m", ".", "r", "s">> >>),
      Join(AppDir, << SrcDir, <<"n", ".", "r", "s">> >>),
      Join(AppDir, << SrcDir, <<"k", ".", "r", "s">> >>),
      Join(AppDir, << SrcDir, <<"z", ".", "r", "s">> >>),
      Join(AppDir, << SrcDir, <<"m">> >>),
      Join(AppDir, << SrcDir, <<"m", ".", "x", ".", "r", "s">> >>),
      Join(AppDir, << SrcDir, <<".", "r", "s">> >>),
      Join(SubDir, << SrcDir, <<"m", ".", "r", "s">> >>) }

\* Properties blobs: the two architectures, another value, a blob without the
\* field, and malformed JSON.
ArgsProperties ==
    { [wellFormed |-> TRUE, hasArchitecture |-> TRUE, architecture |-> "arm_64"],
      [wellFormed |-> TRUE, hasArchitecture |-> TRUE, architecture |-> "x86_64"],
      [wellFormed |-> TRUE, hasArchitecture |-> TRUE, architecture |-> "arm64"],
      [wellFormed |-> TRUE, hasArchitecture |-> FALSE, architecture |-> ""],
      [wellFormed |-> FALSE, hasArchitecture |-> FALSE, architecture |-> ""] }

ArgsInputs ==
    [FunctionID : {"f1"}, Handler : ArgsHandlers, Dev : BOOLEAN,
     Properties : ArgsProperties]

BuildCallArgs(b) == BuildCallWith(b, ArgsInputs)

NextArgs ==
    \/ BuildCallArgs("b1")
    \/ BuildLock("b1")
    \/ BuildPrepare("b1")
    \/ BuildCommandRun("b1")
    \/ BuildCommandDone("b1")
    \/ BuildWriteBegin("b1")
    \/ BuildWriteEnd("b1")
    \/ BuildReturn("b1")

SpecArgs == Init /\ [][NextArgs]_vars

\* ------------------------------------------------------------------------
\* Concurrent Builds alone, scheduled fairly
\* ------------------------------------------------------------------------

NextBuilds ==
    \/ \E b \in Builders : BuildCall(b)
    \/ \E b \in Builders : BuildLock(b)
    \/ \E b \in Builders : BuildPrepare(b)
    \/ \E b \in Builders : BuildCommandRun(b)
    \/ \E b \in Builders : BuildCommandDone(b)
    \/ \E b \in Builders : BuildWriteBegin(b)
    \/ \E b \in Builders : BuildWriteEnd(b)
    \/ \E b \in Builders : BuildReturn(b)

\* The goroutine of a Build call that can take its next step takes it, and
\* the cargo command runs to its end. A call waiting in r.mut.Lock() gets the
\* mutex if it is free again and again: sync.Mutex hands the lock to a waiter
\* that has waited long (its starvation mode).
SpecBuilds ==
    /\ Init
    /\ [][NextBuilds]_vars
    /\ \A b \in Builders :
        /\ SF_vars(BuildLock(b))
        /\ WF_vars(BuildPrepare(b))
        /\ WF_vars(BuildCommandRun(b))
        /\ WF_vars(BuildCommandDone(b))
        /\ WF_vars(BuildWriteBegin(b))
        /\ WF_vars(BuildWriteEnd(b))
        /\ WF_vars(BuildReturn(b))

\* ------------------------------------------------------------------------
\* One Build and one worker on the same Runtime
\* ------------------------------------------------------------------------

\* The build of one function of the project.
AdapterInputs ==
    {input \in BuildInputs :
        /\ input.FunctionID = "f1"
        /\ input.Handler = Join(AppDir, << SrcDir, MainRs >>)}

BuildCallAdapter(b) == BuildCallWith(b, AdapterInputs)

NextAdapter ==
    \/ BuildCallAdapter("b1")
    \/ BuildLock("b1")
    \/ BuildPrepare("b1")
    \/ BuildCommandRun("b1")
    \/ BuildCommandDone("b1")
    \/ BuildWriteBegin("b1")
    \/ BuildWriteEnd("b1")
    \/ BuildReturn("b1")
    \/ Run
    \/ \E x \in Streams : ChildWrite(x)
    \/ \E x \in Streams : ChildClose(x)
    \/ ChildExit
    \/ Stop
    \/ Logs(1)
    \/ \E x \in Streams : CopyRead(1, x)
    \/ \E x \in Streams : CopyWrite(1, x)
    \/ ReaderRead(1)
    \/ LogsClose(1)
    \/ ReaderEOF(1)

SpecAdapter == Init /\ [][NextAdapter]_vars

\* ------------------------------------------------------------------------
\* Build alone, on every disk
\* ------------------------------------------------------------------------

\* What the config files of a disk hold: a target-dir that is not rooted, a
\* rooted one, no target-dir, or text that is not TOML.
ConfigKinds == {"relative", "rooted", "none", "malformed"}

\* A config file of a kind; its target-dir is named after the file.
ConfigFileOf(kind, targetName) ==
    IF kind = "malformed" THEN ConfigFile(FALSE, FALSE, NoRoot)
    ELSE IF kind = "none" THEN ConfigFile(TRUE, FALSE, NoRoot)
    ELSE ConfigFile(TRUE, TRUE, Path(kind = "rooted", <<targetName>>))

\* What a directory has: no .cargo, an empty one, or one with either or both
\* of the config files.
Presences == {"no .cargo", "empty", "config.toml", "config", "both"}

CargoDirOf(presence, kind) ==
    IF presence = "no .cargo" THEN NoCargoDir
    ELSE CargoDir(IF presence \in {"config.toml", "both"}
                  THEN ConfigFileOf(kind, <<"t">>) ELSE NoFile,
                  IF presence \in {"config", "both"}
                  THEN ConfigFileOf(kind, <<"u">>) ELSE NoFile)

Layouts ==
    {[d \in ConfigDirs |-> CargoDirOf(presence[d], kind)] :
        presence \in [ConfigDirs -> Presences], kind \in ConfigKinds}

\* The disks: a manifest that is TOML or not, a layout of .cargo directories,
\* and an artifact directory that can be made and written, cannot be made, or
\* fails in the middle of a write.
Disks ==
    {[SoundDisk EXCEPT !.manifestOk = manifestOk, !.cargo = cargo,
                       !.outWritable = writes[1], !.ioOk = writes[2]] :
        manifestOk \in BOOLEAN, cargo \in Layouts,
        writes \in {<<TRUE, TRUE>>, <<FALSE, TRUE>>, <<TRUE, FALSE>>}}

\* Builds of the two projects, with a properties blob cut short before its
\* closing brace.
DiskInputs ==
    [FunctionID : {"f1"},
     Handler : {Join(AppDir, << SrcDir, MainRs >>),
                Join(SubDir, << SrcDir, MainRs >>)},
     Dev : DevModes,
     Properties :
        {[wellFormed |-> FALSE, hasArchitecture |-> TRUE, architecture |-> "arm_64"]}]

BuildCallDisk(b) == BuildCallWith(b, DiskInputs)

InitDisk ==
    /\ disk \in Disks
    /\ directories = <<>>
    /\ mut = Unlocked
    /\ build = [b \in Builders |-> IdleBuild]
    /\ rebuild = [s \in Rebuilders |-> IdleRebuild]
    /\ fatal = FALSE
    /\ lastBuilt = <<>>
    /\ WorkerInit

NextDisk ==
    \/ BuildCallDisk("b1")
    \/ BuildLock("b1")
    \/ BuildPrepare("b1")
    \/ BuildCommandRun("b1")
    \/ BuildCommandDone("b1")
    \/ BuildWriteBegin("b1")
    \/ BuildWriteEnd("b1")
    \/ BuildReturn("b1")

SpecDisk == InitDisk /\ [][NextDisk]_vars

\* ------------------------------------------------------------------------
\* Properties
\* ------------------------------------------------------------------------

\* C1: reads and writes of the directories map are never torn: no state is
\* reachable in which a ShouldRebuild read of the map overlaps a Build write
\* of it.
NoTornMapAccess ==
    \A b \in Builders, s \in Rebuilders :
        ~(build[b].pc = "writing" /\ rebuild[s].pc = "reading")

\* The map as the returned Builds determine it: the history of the Builds
\* whose callers have their result, and the Build that is returning now.
ExpectedDirectories ==
    LET returning == {b \in Builders :
                         build[b].pc = "ret" /\ Succeeded(build[b])}
    IN IF returning = {} THEN lastBuilt
       ELSE LET b == CHOOSE r \in returning : TRUE
            IN (build[b].input.FunctionID :> ProjectRoot(build[b].input.Handler))
               @@ lastBuilt

\* C2: after any sequence of Build calls the map holds, for each function id,
\* the absolute project root of the most recent Build of that id that
\* succeeded, and no entry for an id none has succeeded for: a failed Build
\* (non-zero exit, or no manifest) leaves the map as it was, a successful one
\* changes its own id's entry alone, and no entry is ever removed.
MapTracksLastSuccessfulBuild ==
    /\ DOMAIN directories = DOMAIN ExpectedDirectories
    /\ \A f \in DOMAIN directories : directories[f] = ExpectedDirectories[f]

\* C2 witness: a Build of f1 that failed is returning, and the map still holds
\* f1's root from an earlier Build, beside f2's.
FailedBuildLeftMap ==
    /\ \E b \in Builders :
        /\ build[b].pc = "ret"
        /\ ~Succeeded(build[b])
        /\ build[b].input.FunctionID = "f1"
    /\ DOMAIN directories = {"f1", "f2"}
    /\ directories["f1"] = SubDir
    /\ directories["f2"] = AppDir

\* C3: when the cargo command exits non-zero, Build returns a nil error and a
\* BuildOutput whose Errors has exactly one entry, the combined output of the
\* command, with Handler, Sourcemaps and Out at their zero values.
FailedCommandOutput ==
    \A b \in Builders :
        (build[b].pc = "ret" /\ build[b].exit = "nonzero") =>
            /\ build[b].err = "nil"
            /\ ~build[b].out.nil
            /\ ~build[b].out.Errors.nil
            /\ build[b].out.Errors.elems = <<build[b].output>>
            /\ build[b].out.Handler = ""
            /\ build[b].out.Sourcemaps = NilSlice
            /\ build[b].out.Out = NoRoot

\* C3 witness: a Build whose command printed an error and exited non-zero is
\* returning.
FailedCommandReturning ==
    \E b \in Builders :
        /\ build[b].pc = "ret"
        /\ build[b].exit = "nonzero"
        /\ build[b].output = "error: could not compile"

\* C6: once the context of a Build is cancelled while the cargo command runs,
\* the command is aborted: it does no more of its work.
CancelAbortsCommand ==
    \A b \in Builders :
        (build[b].pc = "cmd" /\ build[b].cancelled) =>
            build[b].work = build[b].workAtCancel

\* Whether the directory is an ancestor of the file: the file's path relative
\* to it does not begin with a parent-directory element.
IsAncestor(dir, file) ==
    /\ dir.abs = file.abs
    /\ Len(dir.segs) < Len(file.segs)
    /\ SubSeq(file.segs, 1, Len(dir.segs)) = dir.segs

\* C4: ShouldRebuild answers false for a file not ending in .rs and for a
\* function id with no recorded root, and otherwise true exactly when the
\* recorded root is an ancestor of the file.
RebuildIffUnderRoot ==
    \A s \in Rebuilders :
        rebuild[s].pc = "ret" =>
            rebuild[s].ret =
                (/\ IsRustFile(rebuild[s].file)
                 /\ rebuild[s].functionID \in DOMAIN directories
                 /\ IsAncestor(directories[rebuild[s].functionID],
                               rebuild[s].file))

\* The base name of the handler without its extension: the last element of
\* the path, cut before its last dot.
BaseNameWithoutExtension(handler) ==
    LET name == handler.segs[Len(handler.segs)]
        dots == {i \in 1..Len(name) : name[i] = "."}
    IN IF dots = {} THEN name
       ELSE SubSeq(name, 1, (CHOOSE i \in dots : \A j \in dots : j <= i) - 1)

\* The entries of the manifest above the handler that are named as it.
MatchingBins(input) ==
    LET bins == CargoTomlAt(ProjectRoot(input.Handler)).Bin
    IN SelectSeq(bins, LAMBDA e : e.Name = BaseNameWithoutExtension(input.Handler))

\* The features of the first matching entry, none when nothing matches.
DeclaredFeatures(input) ==
    IF MatchingBins(input) = <<>> THEN <<>>
    ELSE MatchingBins(input)[1].RequiredFeatures

\* The features separated by commas, built from the last one back.
RECURSIVE CommaSeparated(_)
CommaSeparated(features) ==
    IF features = <<>> THEN <<>>
    ELSE IF Len(features) = 1 THEN features[1]
    ELSE CommaSeparated(SubSeq(features, 1, Len(features) - 1))
         \o <<",">> \o features[Len(features)]

\* The full command line and, for each of its words, whether this input has
\* it.
ArgsTemplate(input) ==
    <<ArgLambda, ArgBuild, ArgBin, BaseNameWithoutExtension(input.Handler),
      ArgRelease, ArgArm64, ArgNoDefaultFeatures, ArgFeatures,
      CommaSeparated(DeclaredFeatures(input))>>

ArgsKept(input) ==
    LET arm == /\ input.Properties.wellFormed
               /\ input.Properties.hasArchitecture
               /\ input.Properties.architecture = "arm_64"
        features == DeclaredFeatures(input) # <<>>
    IN <<TRUE, TRUE, TRUE, TRUE, ~input.Dev, arm, TRUE, features, features>>

RECURSIVE Keep(_, _)
Keep(words, kept) ==
    IF words = <<>> THEN <<>>
    ELSE (IF kept[1] THEN <<words[1]>> ELSE <<>>)
         \o Keep(Tail(words), Tail(kept))

\* C10: the arguments of the cargo command are, in this order: lambda, build,
\* --bin and the handler's base name without extension; --release iff Dev is
\* false; --arm64 iff the architecture property is "arm_64";
\* --no-default-features; --features and the comma-joined required features
\* of the matching bin entry, in manifest order, iff that list is not empty.
CommandArguments ==
    \A b \in Builders :
        build[b].pc \in {"cmd", "write", "writing"} =>
            build[b].args = Keep(ArgsTemplate(build[b].input),
                                 ArgsKept(build[b].input))

\* C10 witness: a release build for arm_64 of a binary declared with the
\* features b, a, c is running its command, with all nine words.
FullCommandLine ==
    /\ build["b1"].pc = "cmd"
    /\ ~build["b1"].input.Dev
    /\ build["b1"].args =
           <<ArgLambda, ArgBuild, ArgBin, <<"m", ".", "x">>, ArgRelease,
             ArgArm64, ArgNoDefaultFeatures, ArgFeatures,
             <<"b", ",", "a", ",", "c">> >>

\* C5: when spawning the child fails in Run, Run returns a non-nil error and
\* no worker.
RunReportsSpawnFailure ==
    (worker.pc = "returned" /\ ~worker.spawned) =>
        (worker.err # "nil" /\ worker.nil)

OfStream(bytes, x) == SelectSeq(bytes, LAMBDA byte : byte[1] = x)

IsPrefix(a, b) == Len(a) <= Len(b) /\ SubSeq(b, 1, Len(a)) = a

\* C8: with Logs called once, the merged stream carries the bytes of each
\* stream in the order the child wrote them, none lost and none twice: at its
\* end of data it has delivered exactly the bytes written to stdout and to
\* stderr; and once the child is gone (both streams closed) a reader that
\* keeps reading gets to the end of data.
LogsDeliversEveryByte ==
    /\ [](~logs[2].called =>
            \A x \in Streams :
                /\ IsPrefix(OfStream(logs[1].received, x), emitted[x])
                /\ logs[1].eof =>
                       /\ OfStream(logs[1].received, x) = emitted[x]
                       /\ Len(logs[1].received) =
                              Len(emitted["stdout"]) + Len(emitted["stderr"]))
    /\ (logs[1].called /\ proc.state # "running") ~> logs[1].eof

\* C8 witness: the one merged stream is at its end of data after two bytes of
\* each stream, with a byte of stderr between the two of stdout.
BothStreamsDelivered ==
    /\ ~logs[2].called
    /\ logs[1].eof
    /\ Len(logs[1].received) = 4
    /\ \E i \in 1..2 :
        /\ logs[1].received[i] = Byte("stdout", 1)
        /\ logs[1].received[i + 1] = Byte("stderr", 1)
        /\ logs[1].received[i + 2] = Byte("stdout", 2)

\* C9: whenever a merged stream is at its end of data, the child that was
\* spawned has been reaped.
EndOfDataAfterReap ==
    \A l \in LogsCalls : (logs[l].eof /\ worker.spawned) => proc.reaped

\* A Build call past r.mut.Lock() that has not returned.
PastLock(b) == build[b].pc \in {"locked", "cmd", "write", "writing", "ret"}

\* C12: Build holds the lock of the Runtime for the whole build: no two Build
\* calls are past the lock at once (two cargo commands never run together),
\* and the call past the lock is the one holding it.
BuildsAreSerialized ==
    /\ \A b1, b2 \in Builders : (PastLock(b1) /\ PastLock(b2)) => b1 = b2
    /\ \A b \in Builders : PastLock(b) => mut = b

\* A cargo command at work while the other Build call waits for the lock.
BuildWaitingBehindCommand ==
    \E b1, b2 \in Builders :
        /\ build[b1].pc = "cmd" /\ build[b1].work >= 1
        /\ build[b2].pc = "lock"

\* C19: Build releases the lock on every path out of it: the lock is held
\* only by a Build call in progress, and, the cargo commands terminating, a
\* Build call waiting for the lock gets it and returns.
LockReleasedOnEveryPath ==
    /\ [](\A b \in Builders : mut = b => PastLock(b))
    /\ [](mut # Unlocked => mut \in Builders)
    /\ \A b \in Builders :
        (build[b].pc = "lock") ~> (build[b].pc = "idle" /\ mut # b)

\* A Build call returning the error of fs.FindUp, the lock still its own,
\* with the other call waiting for the lock.
NotFoundReturningBeforeWaiter ==
    \E b1, b2 \in Builders :
        /\ build[b1].pc = "ret" /\ build[b1].err # "nil" /\ mut = b1
        /\ build[b2].pc = "lock"

\* Whether an underlying stream is at its end: nothing is left in the pipe
\* and one of its ends is closed.
AtEOF(x) ==
    /\ pipes[x].buf = <<>>
    /\ ~pipes[x].writeOpen \/ ~pipes[x].readOpen

\* C16: the merged stream of Logs is closed only after both copy loops have
\* completed: while one underlying stream has not reached its end, the merged
\* stream is not closed and does not signal end of data, however long the
\* other has been exhausted.
MergedStreamJoinsBothCopies ==
    \A l \in LogsCalls :
        /\ logs[l].eof => logs[l].closed
        /\ logs[l].closed =>
               \A x \in Streams : logs[l].copy[x].pc = "done" /\ AtEOF(x)

\* One stream closed by the child and its copy loop done, the other still
\* open with the child running: the merged stream is held open.
OneStreamExhausted ==
    \E l \in LogsCalls, x, y \in Streams :
        /\ proc.state = "running"
        /\ logs[l].copy[x].pc = "done"
        /\ Len(logs[l].received) >= 1
        /\ pipes[y].writeOpen /\ logs[l].copy[y].pc = "read"
        /\ ~logs[l].closed

\* The places of a byte in the merged streams returned by the calls of Logs.
Deliveries(byte) ==
    {d \in LogsCalls \X (1..(2 * MaxBytes)) :
        d[2] <= Len(logs[d[1]].received) /\ logs[d[1]].received[d[2]] = byte}

\* C20: with Logs called more than once on a worker, the copy loops of the
\* calls take the bytes from the same underlying streams: a byte the child
\* wrote is delivered to one of the returned streams at most, never to two,
\* and once every returned stream has signalled end of data each byte has been
\* delivered to exactly one of them.
EachByteToOneStream ==
    /\ \A l \in LogsCalls : Len(logs[l].received) <= 2 * MaxBytes
    /\ \A l \in LogsCalls : \A i \in 1..Len(logs[l].received) :
            LET byte == logs[l].received[i]
            IN /\ byte[2] <= Len(emitted[byte[1]])
               /\ Cardinality(Deliveries(byte)) = 1
    /\ (\A l \in LogsCalls : logs[l].eof) =>
            \A x \in Streams : \A i \in 1..Len(emitted[x]) :
                Cardinality(Deliveries(Byte(x, i))) = 1

\* Both returned streams at end of data, each with a byte of stdout the other
\* has not: neither carries the complete output.
OutputSplitBetweenStreams ==
    /\ \A l \in LogsCalls : logs[l].eof
    /\ \E i, j \in 1..Len(emitted["stdout"]) :
        /\ Deliveries(Byte("stdout", i)) \subseteq {1} \X (1..(2 * MaxBytes))
        /\ Deliveries(Byte("stdout", j)) \subseteq {2} \X (1..(2 * MaxBytes))

\* C18: Run, Stop and Logs never take the lock of the Runtime: while a Build
\* holds it each of them can be called and returns, and a step of Run, Stop or
\* Logs leaves the lock as it is, so that none is held over the life of a
\* worker's process.
WorkerNeedsNoBuildLock ==
    /\ [](mut # Unlocked =>
            /\ worker.pc = "none" => ENABLED Run
            /\ (worker.pc = "returned" /\ stops.made < MaxStops) => ENABLED Stop
            /\ (worker.pc = "returned" /\ ~logs[1].called) => ENABLED Logs(1))
    /\ [][(worker' # worker \/ stops' # stops \/ logs' # logs \/ proc' # proc)
            => (mut' = mut /\ build' = build)]_vars

\* A worker run, read to the end of its output and stopped, all beside a
\* Build whose cargo command has not done its first unit of work.
WorkerDoneDuringBuild ==
    /\ mut = "b1" /\ build["b1"].pc = "cmd" /\ build["b1"].work = 0
    /\ worker.pc = "returned" /\ worker.spawned
    /\ stops.made >= 1
    /\ logs[1].eof /\ Len(logs[1].received) >= 1

\* A Build call that has found its project root and not returned yet.
RootFound(b) ==
    /\ build[b].pc \in {"cmd", "write", "writing", "ret"}
    /\ build[b].root # NoRoot

\* The directory of a set that is nearest to the project root: the deepest.
Nearest(dirs) == CHOOSE d \in dirs : \A e \in dirs : Len(e.segs) <= Len(d.segs)

\* The config file a .cargo directory gives: config.toml before config, none
\* when it has neither.
ConfigIn(dir) ==
    LET here == CargoDirAt(disk.cargo, dir)
    IN IF here.configToml.exists
       THEN StringPtr(Join(dir, <<DotCargo, ConfigTomlName>>))
       ELSE IF here.config.exists
       THEN StringPtr(Join(dir, <<DotCargo, ConfigName>>))
       ELSE NilString

\* The directories from the project root upward that have a .cargo directory,
\* and those of them whose .cargo has one of the two config files.
WithCargoDir(root) ==
    {d \in Upward(root) : CargoDirAt(disk.cargo, d).exists}
WithConfigFile(root) ==
    {d \in WithCargoDir(root) : ~ConfigIn(d).nil}

\* C11 as stated: the walk upward from the project root ends at the first
\* directory that has a .cargo directory, which alone decides the result
\* (config.toml before config, none when it has neither file); no directory
\* above it is consulted.
NearestCargoDirDecides ==
    \A b \in Builders :
        RootFound(b) =>
            build[b].cargoConfigFile =
                IF WithCargoDir(build[b].root) = {} THEN NilString
                ELSE ConfigIn(Nearest(WithCargoDir(build[b].root)))

\* C11, amended: the walk upward from the project root ends at the first
\* directory whose .cargo directory has config.toml or config, which alone
\* decides the result (config.toml before config); a .cargo directory with
\* neither file is passed over and the walk goes on above it.
NearestConfigFileDecides ==
    \A b \in Builders :
        RootFound(b) =>
            build[b].cargoConfigFile =
                IF WithConfigFile(build[b].root) = {} THEN NilString
                ELSE ConfigIn(Nearest(WithConfigFile(build[b].root)))

\* A project whose own .cargo directory has neither file, under a directory
\* whose .cargo has both: the config.toml above is the one found.
EmptyCargoDirPassedOver ==
    \E b \in Builders :
        /\ RootFound(b)
        /\ build[b].root = AppDir
        /\ disk.cargo[AppDir].exists /\ ConfigIn(AppDir).nil
        /\ disk.cargo[WDir].configToml.exists /\ disk.cargo[WDir].config.exists
        /\ build[b].cargoConfigFile =
               StringPtr(Join(WDir, <<DotCargo, ConfigTomlName>>))

\* Whether no directory above the handler holds a Cargo.toml.
NoManifestAbove(handler) == \A d \in CargoTomlDirs : ~IsAncestor(d, handler)

\* C13: with no Cargo.toml in any directory above the handler, Build returns
\* a nil BuildOutput and an error that is not nil, and the cargo command is
\* never run.
MissingManifestIsFatal ==
    \A b \in Builders :
        (build[b].pc # "idle" /\ NoManifestAbove(build[b].input.Handler)) =>
            /\ build[b].pc \in {"lock", "locked", "ret"}
            /\ build[b].work = 0 /\ build[b].exit = "none"
            /\ build[b].pc = "ret" =>
                   (build[b].out.nil /\ build[b].err # "nil")

\* A Build of the handler outside every project, about to return.
ManifestNotFoundReturning ==
    \E b \in Builders :
        /\ build[b].pc = "ret"
        /\ NoManifestAbove(build[b].input.Handler)
        /\ build[b].input.Handler = Join(LooseDir, << MainRs >>)

\* A Build call whose cargo command succeeded and whose copy has been tried.
PastCopy(b) ==
    /\ build[b].pc \in {"write", "writing", "ret"}
    /\ build[b].exit = "ok"

\* C14: a copy of the binary that fails after a cargo command that succeeded
\* does not abort Build: it returns a nil error and the BuildOutput of a
\* success (Handler "bootstrap", no sourcemaps, no errors, Out the requested
\* directory), with the project root recorded for the function id.
CopyFailureLeavesSuccess ==
    \A b \in Builders :
        (build[b].pc = "ret" /\ build[b].exit = "ok"
         /\ build[b].copyErr # "nil") =>
            /\ build[b].err = "nil"
            /\ build[b].out = BuildOutput("bootstrap", Slice(<<>>), Slice(<<>>),
                                          Out(build[b].input))
            /\ build[b].input.FunctionID \in DOMAIN directories
            /\ directories[build[b].input.FunctionID] = Abs(build[b].root)

\* A Build returning after a copy cut short by a write error, the destination
\* left incomplete.
CopyFailedReturning ==
    \E b \in Builders :
        /\ build[b].pc = "ret" /\ build[b].exit = "ok"
        /\ build[b].copyErr = "copy"
        /\ ~disk.files[build[b].dst].whole

\* The config file the Build has found, as it is on disk: the one of the
\* nearest directory that has one.
FoundConfigFile(b) ==
    IF WithConfigFile(build[b].root) = {} THEN NoFile
    ELSE LET here == CargoDirAt(disk.cargo, Nearest(WithConfigFile(build[b].root)))
         IN IF here.configToml.exists THEN here.configToml ELSE here.config

\* The binary's place under the default target directory of the project.
DefaultSource(b) ==
    Join(build[b].root,
         <<TargetName, LambdaName, BaseNameWithoutExtension(build[b].input.Handler),
           BootstrapName>>)

\* C15: a failure to parse metadata is never fatal. With a Cargo.toml that is
\* not TOML no feature is required; with properties that are not JSON the
\* architecture is the default; with a config file that is not TOML the
\* target directory is the default; and none of them makes Build return an
\* error, or errors in its output when the cargo command succeeded.
MetadataFailuresNotFatal ==
    \A b \in Builders :
        RootFound(b) =>
            /\ ~disk.manifestOk =>
                   \A i \in DOMAIN build[b].args : build[b].args[i] # ArgFeatures
            /\ ~build[b].input.Properties.wellFormed =>
                   \A i \in DOMAIN build[b].args : build[b].args[i] # ArgArm64
            /\ (FoundConfigFile(b).exists /\ ~FoundConfigFile(b).wellFormed) =>
                   /\ build[b].targetDir.nil
                   /\ PastCopy(b) => build[b].src = DefaultSource(b)
            /\ build[b].pc = "ret" =>
                   /\ build[b].err = "nil"
                   /\ ~build[b].out.nil
                   /\ build[b].exit = "ok" => build[b].out.Errors.elems = <<>>

\* A Build of the project succeeding with a manifest, a config file and
\* properties that all fail to parse.
NothingParsedReturning ==
    \E b \in Builders :
        /\ build[b].pc = "ret" /\ build[b].exit = "ok"
        /\ build[b].root = AppDir
        /\ ~disk.manifestOk
        /\ ~build[b].input.Properties.wellFormed
        /\ FoundConfigFile(b).exists /\ ~FoundConfigFile(b).wellFormed

\* The target directory the override names: the target-dir itself, which
\* cargo takes from the directory holding .cargo when it is not rooted; and
\* target under the project root with no override.
OverrideTargetDir(b) ==
    IF FoundConfigFile(b).hasTargetDir
    THEN IF FoundConfigFile(b).targetDir.abs THEN FoundConfigFile(b).targetDir
         ELSE Join(Nearest(WithConfigFile(build[b].root)),
                   FoundConfigFile(b).targetDir.segs)
    ELSE Join(build[b].root, <<TargetName>>)

\* C17: after a cargo command that succeeded the binary is copied from
\* <targetDir>/lambda/<name>/bootstrap, targetDir being the override's
\* target-dir itself when there is one and target under the project root
\* otherwise, to bootstrap in the requested directory; after the copy the
\* destination holds the bytes of the source and its directory exists.
BinaryCopiedFromTargetDir ==
    \A b \in Builders :
        PastCopy(b) =>
            /\ build[b].src =
                   Join(OverrideTargetDir(b),
                        <<LambdaName,
                          BaseNameWithoutExtension(build[b].input.Handler),
                          BootstrapName>>)
            /\ build[b].dst = Join(Out(build[b].input), <<BootstrapName>>)
            /\ build[b].copyErr = "nil" =>
                   /\ build[b].dst \in DOMAIN disk.files
                   /\ disk.files[build[b].dst] = disk.files[build[b].src]
                   /\ Dir(build[b].dst) \in disk.dirs

====
